---- MODULE Spec2Model ----
(***************************************************************************)
(* metamorph: the agent's conversation loop (internal/agent/agent.go),     *)
(* its startup (main.go, the config package), the file_editor tool and the *)
(* action_limiter tool.                                                    *)
(*                                                                         *)
(* Spec: Run alternates user-input reads, generation requests and the      *)
(* processing of the content blocks of each response; LoopProtection       *)
(* bounds unattended tool use.  Time is counted in whole minutes, the      *)
(* unit line 187 converts to before it compares with 1.                    *)
(*                                                                         *)
(* SpecStartup: main validates a configuration, New builds the agent from  *)
(* its tool list and executeTool looks names up in it.                     *)
(*                                                                         *)
(* SpecEditor: EditFileContent is called, in each of its modes, on one     *)
(* path whose file and directory may be missing.                           *)
(*                                                                         *)
(* SpecLimiter: two callers run ActionLimiter on the package's stats; each *)
(* function that takes the mutex is one step.                              *)
(***************************************************************************)
EXTENDS Integers, Sequences, FiniteSets

(* ------------------------------ bounds --------------------------------- *)

\* generation requests made in one run
MaxGen == 2
\* minutes the clock advances in one run
MaxTime == 2

(* ------------------------------ inputs --------------------------------- *)

\* GetAllTools: the registered definitions, in registration order
tools == << [Name |-> "read_file"], [Name |-> "list_files"] >>

\* tool names the completion engine asks for: one registered, one not
RequestNames == {"list_files", "no_such_tool"}

BlockKinds == {"text"} \cup RequestNames

\* the shapes of a response: the kinds of its content blocks, in order
Responses ==
    {<< >>} \cup {<<a>> : a \in BlockKinds}
            \cup {<<a, b>> : a \in BlockKinds, b \in BlockKinds}

\* what a handler returns: its output, or an error
HandlerOutcomes == {"ok", "fail"}

\* the settings of LoopProtection (main.go overrides NewLoopProtection's):
\* every combination of tight limits, and roomy ones under which a run of
\* four tool uses meets the same-tool check alone
Configs ==
    [MaxConsecutiveToolUses : 0..2,
     MaxToolUsesPerMinute   : 1..2,
     MaxSameToolCalls       : 1..2,
     MaxSessionDuration     : {1, MaxTime + 1}]
    \cup
    [MaxConsecutiveToolUses : {4},
     MaxToolUsesPerMinute   : {2, 5},
     MaxSameToolCalls       : 1..3,
     MaxSessionDuration     : {MaxTime + 1}]

(* ------------------------------- state --------------------------------- *)

VARIABLES
    pc,              \* position of Run: Start, LoopTop, Generating, Processing, Done
    now,             \* wall clock, minutes
    loopProtection,  \* Agent.loopProtection
    readUserInput,   \* Run's local readUserInput
    conversation,    \* Run's local conversation
    message,         \* the response being processed by processToolUsages
    idx,             \* index of the next content block of message
    toolResults,     \* processToolUsages' local toolResults
    hasToolUses,     \* processToolUsages' local hasToolUses
    runResult,       \* what Run returned: running, nil, error
    gens,            \* generation requests made so far
    nextId,          \* ids the completion engine has handed out
    ev,              \* history: the last step taken
    executed,        \* history: ids passed to executeTool, in order
    handlerCalls,    \* history: ids whose handler function was called, in order
    denied,          \* history: ids of the tool_use blocks a limit stopped
    attempts,        \* history: tool_use blocks processed since the last user-input read
    checkedNames,    \* history: names that reached the same-tool check since that read
    reads,           \* history: user-input reads made
    config,          \* startup: the configuration main hands to Validate and New
    startup,         \* startup: idle, loaded, validated, rejected, constructed
    agentTools,      \* startup: Agent.tools, set by New
    lookup,          \* startup: the last name looked up and what findTool found
    fs,              \* editor: the file at the request's path and its directory
    fsBefore,        \* editor, history: fs before the last call
    editRequest,     \* editor, history: the input of the last call
    editResult,      \* editor, history: what the last call returned
    edits,           \* editor, history: calls made
    stats,           \* limiter: the package's stats
    isInitialized,   \* limiter: the package's isInitialized
    clock,           \* limiter: wall clock, seconds
    lpc,             \* limiter: position of each caller in ActionLimiter
    linput,          \* limiter: the input of each caller's call
    lresult,         \* limiter, history: what each caller's last call returned
    calls,           \* limiter, history: calls made
    recorded         \* limiter, history: recordAction steps since the last reset

runVars == << pc, now, loopProtection, readUserInput, conversation, message, idx,
              toolResults, hasToolUses, runResult, gens, nextId, ev, executed,
              handlerCalls, denied, attempts, checkedNames, reads >>
registryVars == << config, startup, agentTools, lookup >>
editorVars == << fs, fsBefore, editRequest, editResult, edits >>
limiterVars == << stats, isInitialized, clock, lpc, linput, lresult, calls, recorded >>
toolVars == << registryVars, editorVars, limiterVars >>

vars == << runVars, registryVars, editorVars, limiterVars >>

loopVars == << message, idx, toolResults, hasToolUses >>
histVars == << executed, handlerCalls, denied, attempts, checkedNames, reads >>

Range(s) == {s[i] : i \in 1..Len(s)}

(* ------------------------- the loop protection -------------------------- *)

NewLoopProtection(cfg, t) ==
    [MaxConsecutiveToolUses |-> cfg.MaxConsecutiveToolUses,
     MaxToolUsesPerMinute   |-> cfg.MaxToolUsesPerMinute,
     MaxSessionDuration     |-> cfg.MaxSessionDuration,
     MaxSameToolCalls       |-> cfg.MaxSameToolCalls,
     ConsecutiveToolUses    |-> 0,
     LastToolName           |-> "",
     SameToolCallCount      |-> 0,
     ToolUseStartTime       |-> t,
     ToolUseCount           |-> 0,
     SessionStartTime       |-> t]

SessionExpiredInclusive(lp, t) == t - lp.SessionStartTime >= lp.MaxSessionDuration

\* the comparison at the top of an iteration
SessionExpired(lp, t) == t - lp.SessionStartTime > lp.MaxSessionDuration

ResetOnUserInputAll(lp) ==
    [lp EXCEPT !.ConsecutiveToolUses = 0, !.LastToolName = "",
               !.SameToolCallCount = 0, !.ToolUseCount = 0]

\* the counters cleared before a user-input read
ResetOnUserInput(lp) ==
    [lp EXCEPT !.ConsecutiveToolUses = 0, !.LastToolName = "",
               !.SameToolCallCount = 0]

CountersAtLoopTopAlways(lp, read) == ResetOnUserInput(lp)

\* the loop protection after the top of an iteration
CountersAtLoopTop(lp, read) == IF read THEN ResetOnUserInput(lp) ELSE lp

RecordAttempt(lp) ==
    [lp EXCEPT !.ConsecutiveToolUses = @ + 1, !.ToolUseCount = @ + 1]

ConsecutiveLimitReached(lp) ==
    lp.ConsecutiveToolUses >= lp.MaxConsecutiveToolUses

ConsecutiveLimitExceededByTwo(lp) ==
    lp.ConsecutiveToolUses > lp.MaxConsecutiveToolUses + 1

ConsecutiveLimitExceeded(lp) ==
    lp.ConsecutiveToolUses > lp.MaxConsecutiveToolUses

RateLimitExceededStrict(lp, elapsed) ==
    elapsed < 1 /\ lp.ToolUseCount >= lp.MaxToolUsesPerMinute

RateLimitExceeded(lp, elapsed) ==
    elapsed <= 1 /\ lp.ToolUseCount >= lp.MaxToolUsesPerMinute

ResetRateWindow(lp, t) ==
    [lp EXCEPT !.ToolUseStartTime = t, !.ToolUseCount = 1]

SameToolLimitPassed(lp) ==
    lp.SameToolCallCount > lp.MaxSameToolCalls

SameToolLimitReached(lp) ==
    lp.SameToolCallCount >= lp.MaxSameToolCalls

CheckLimitsRateFirst(lp, name, t) ==
    LET lp1     == RecordAttempt(lp)
        elapsed == t - lp1.ToolUseStartTime
    IN  IF RateLimitExceeded(lp1, elapsed)
        THEN [lp |-> lp1, violation |-> "rate"]
        ELSE IF ConsecutiveLimitExceeded(lp1)
        THEN [lp |-> lp1, violation |-> "consecutive"]
        ELSE LET lp2 == IF elapsed > 1 THEN ResetRateWindow(lp1, t) ELSE lp1
             IN  IF lp2.LastToolName = name
                 THEN LET lp3 == [lp2 EXCEPT !.SameToolCallCount = @ + 1]
                      IN  [lp |-> lp3,
                           violation |-> IF SameToolLimitReached(lp3)
                                         THEN "same-tool" ELSE "none"]
                 ELSE [lp |-> [lp2 EXCEPT !.LastToolName = name,
                                          !.SameToolCallCount = 1],
                       violation |-> "none"]

\* the checks of one tool_use block; violation is none when all pass
CheckLimits(lp, name, t) ==
    LET lp1     == RecordAttempt(lp)
        elapsed == t - lp1.ToolUseStartTime
    IN  IF ConsecutiveLimitExceeded(lp1)
        THEN [lp |-> lp1, violation |-> "consecutive"]
        ELSE IF RateLimitExceeded(lp1, elapsed)
        THEN [lp |-> lp1, violation |-> "rate"]
        ELSE LET lp2 == IF elapsed > 1 THEN ResetRateWindow(lp1, t) ELSE lp1
             IN  IF lp2.LastToolName = name
                 THEN LET lp3 == [lp2 EXCEPT !.SameToolCallCount = @ + 1]
                      IN  [lp |-> lp3,
                           violation |-> IF SameToolLimitReached(lp3)
                                         THEN "same-tool" ELSE "none"]
                 ELSE [lp |-> [lp2 EXCEPT !.LastToolName = name,
                                          !.SameToolCallCount = 1],
                       violation |-> "none"]

AfterViolationFatal(i) ==
    [pc |-> "Done", idx |-> i, readUserInput |-> TRUE, runResult |-> "error"]

AfterViolationContinue(i) ==
    [pc |-> "Processing", idx |-> i + 1, readUserInput |-> TRUE,
     runResult |-> "running"]

\* where a violation at block i leaves Run: processToolUsages returns
\* (true, err) at once, Run logs the error and reads user input next
AfterViolation(i) ==
    [pc |-> "LoopTop", idx |-> i, readUserInput |-> TRUE, runResult |-> "running"]

ReadNextAfterBatchTrue == TRUE

\* what processToolUsages returns once every block of a response with
\* tool uses was processed
ReadNextAfterBatch == FALSE

\* what processToolUsages returns for a response without tool uses
ReadNextWithoutToolUses == TRUE

(* ----------------------------- the dispatcher --------------------------- *)

\* findTool on an agent whose tools are ts: the index of the first
\* definition named name, 0 when there is none
findToolOf(ts, name) ==
    LET hits == {i \in 1..Len(ts) : ts[i].Name = name}
    IN  IF hits = {} THEN 0 ELSE CHOOSE i \in hits : \A j \in hits : i <= j

\* findTool on the agent main builds
findTool(name) == findToolOf(tools, name)

ToolResultBlock(id, content, isError) ==
    [type |-> "tool_result", id |-> id, content |-> content, isError |-> isError]

executeToolSilent(id, name, outcome) ==
    IF findTool(name) = 0
    THEN [block |-> ToolResultBlock(id, "tool not found", TRUE), called |-> FALSE]
    ELSE IF outcome = "fail"
    THEN [block |-> ToolResultBlock(id, "handler error", FALSE), called |-> TRUE]
    ELSE [block |-> ToolResultBlock(id, "handler output", FALSE), called |-> TRUE]

\* the result block of one tool use, and whether the handler was called
executeTool(id, name, outcome) ==
    IF findTool(name) = 0
    THEN [block |-> ToolResultBlock(id, "tool not found", TRUE), called |-> FALSE]
    ELSE IF outcome = "fail"
    THEN [block |-> ToolResultBlock(id, "handler error", TRUE), called |-> TRUE]
    ELSE [block |-> ToolResultBlock(id, "handler output", FALSE), called |-> TRUE]

(* ----------------------------- conversation ----------------------------- *)

UserText == [kind |-> "UserText", blocks |-> << >>]
AssistantContent(blocks) == [kind |-> "AssistantContent", blocks |-> blocks]
ToolResults(results) == [kind |-> "ToolResults", blocks |-> results]

\* the content blocks of a response of shape r, ids assigned from base
Blocks(r, base) ==
    [i \in 1..Len(r) |->
        IF r[i] = "text"
        THEN [type |-> "text", id |-> 0, name |-> ""]
        ELSE [type |-> "tool_use", id |-> base + i, name |-> r[i]]]

\* the record of a step: what it was, the step before it, the block it
\* handled, the time it read and the loop protection it found
Event(kind, reason, block, index, outcome) ==
    [kind |-> kind, reason |-> reason, prev |-> ev.kind, prevReason |-> ev.reason,
     id |-> block.id, name |-> block.name, index |-> index, outcome |-> outcome,
     at |-> now, before |-> loopProtection]

NoBlock == [type |-> "", id |-> 0, name |-> ""]

(* ------------------------- the other components ------------------------ *)

\* the run has not started
RunIdle ==
    /\ pc = "Idle"
    /\ now = 0
    /\ loopProtection = NewLoopProtection(CHOOSE cfg \in Configs : TRUE, 0)
    /\ readUserInput = TRUE
    /\ conversation = << >>
    /\ message = << >>
    /\ idx = 1
    /\ toolResults = << >>
    /\ hasToolUses = FALSE
    /\ runResult = "running"
    /\ gens = 0
    /\ nextId = 0
    /\ ev = [kind |-> "init", reason |-> "", prev |-> "init", prevReason |-> "",
             id |-> 0, name |-> "", index |-> 0, outcome |-> "", at |-> 0,
             before |-> loopProtection]
    /\ executed = << >>
    /\ handlerCalls = << >>
    /\ denied = {}
    /\ attempts = 0
    /\ checkedNames = << >>
    /\ reads = 0

NoLookup == [name |-> "", index |-> 0, function |-> "", matches |-> 0]

\* startup is not looked at
RegistryIdle ==
    /\ config = [Client |-> TRUE, GetUserMessage |-> TRUE, Tools |-> tools]
    /\ startup = "idle"
    /\ agentTools = tools
    /\ lookup = NoLookup

NoFile == [content |-> << >>, dir |-> FALSE, exists |-> FALSE]
NoRequest == [content |-> << >>, parses |-> FALSE, path |-> "", mode |-> "",
              oldStr |-> << >>, newStr |-> << >>, pattern |-> "",
              lineNumber |-> 0, limit |-> 0]
NoResult == [err |-> FALSE, msg |-> "", count |-> 0]

\* the editor is not looked at
EditorIdle ==
    /\ fs = NoFile
    /\ fsBefore = NoFile
    /\ editRequest = NoRequest
    /\ editResult = NoResult
    /\ edits = 0

\* callers of ActionLimiter
Callers == {1, 2}

\* the actions and targets counted; a Go map without a key reads as 0
ActionNames == {"edit_file", "create_file"}
TargetNames == {"a.go", "b.go", "c.go", "d.go", "e.go", "f.go"}

\* the zero value of ActionStats
ZeroStats ==
    [TotalActions      |-> 0,
     ActionsByType     |-> [a \in ActionNames |-> 0],
     ActionsByTarget   |-> [t \in TargetNames |-> 0],
     ActionsByTypePath |-> [a \in ActionNames |-> [t \in TargetNames |-> 0]],
     StartTime         |-> 0,
     LastActionTime    |-> 0,
     ConsecutiveSame   |-> 0,
     LastAction        |-> "",
     LastTarget        |-> ""]

NoLimiterInput ==
    [parses |-> FALSE, Action |-> "", Target |-> "", CheckOnly |-> FALSE,
     ResetState |-> FALSE]

\* the limiter is not looked at
LimiterIdle ==
    /\ stats = ZeroStats
    /\ isInitialized = FALSE
    /\ clock = 0
    /\ lpc = [p \in Callers |-> "idle"]
    /\ linput = [p \in Callers |-> NoLimiterInput]
    /\ lresult = [p \in Callers |-> "none"]
    /\ calls = 0
    /\ recorded = 0

(* ------------------------------- actions -------------------------------- *)

Init ==
    /\ pc = "Start"
    /\ now = 0
    /\ \E cfg \in Configs : loopProtection = NewLoopProtection(cfg, 0)
    /\ readUserInput = TRUE
    /\ conversation = << >>
    /\ message = << >>
    /\ idx = 1
    /\ toolResults = << >>
    /\ hasToolUses = FALSE
    /\ runResult = "running"
    /\ gens = 0
    /\ nextId = 0
    /\ ev = [kind |-> "init", reason |-> "", prev |-> "init", prevReason |-> "",
             id |-> 0, name |-> "", index |-> 0, outcome |-> "", at |-> 0,
             before |-> loopProtection]
    /\ executed = << >>
    /\ handlerCalls = << >>
    /\ denied = {}
    /\ attempts = 0
    /\ checkedNames = << >>
    /\ reads = 0
    /\ RegistryIdle
    /\ EditorIdle
    /\ LimiterIdle

\* the clock advances while Run waits for the user and the engine (counted
\* when the response arrives, no clock being read in between) or for a handler
Elapse == \E d \in 0..(MaxTime - now) : now' = now + d

\* Run, up to the loop; main builds the agent and runs it at once
RunStart ==
    /\ pc = "Start"
    /\ conversation' = << >>
    /\ loopProtection' = [loopProtection EXCEPT !.SessionStartTime = now]
    /\ readUserInput' = TRUE
    /\ pc' = "LoopTop"
    /\ ev' = Event("start", "", NoBlock, 0, "")
    /\ UNCHANGED << now, loopVars, runResult, gens, nextId, histVars >>
    /\ UNCHANGED toolVars

\* the session time limit at the top of an iteration
SessionLimitReached ==
    /\ pc = "LoopTop"
    /\ SessionExpired(loopProtection, now)
    /\ pc' = "Done"
    /\ runResult' = "nil"
    /\ ev' = Event("sessionEnd", "", NoBlock, 0, "")
    /\ UNCHANGED << now, loopProtection, readUserInput, conversation, loopVars,
                    gens, nextId, histVars >>
    /\ UNCHANGED toolVars

\* an iteration that reads user input: the counters are reset, then the
\* line is appended, or Run ends when the input is exhausted (a line is
\* followed only while generation requests remain within MaxGen)
ReadUserInput ==
    /\ pc = "LoopTop"
    /\ ~SessionExpired(loopProtection, now)
    /\ readUserInput
    /\ loopProtection' = CountersAtLoopTop(loopProtection, readUserInput)
    /\ reads' = reads + 1
    /\ attempts' = 0
    /\ checkedNames' = << >>
    /\ \E ok \in BOOLEAN :
          IF ok
          THEN /\ gens < MaxGen
               /\ conversation' = Append(conversation, UserText)
               /\ pc' = "Generating"
               /\ runResult' = runResult
               /\ ev' = Event("read", "", NoBlock, 0, "")
          ELSE /\ conversation' = conversation
               /\ pc' = "Done"
               /\ runResult' = "nil"
               /\ ev' = Event("eof", "", NoBlock, 0, "")
    /\ UNCHANGED << now, readUserInput, loopVars, gens, nextId, executed,
                    handlerCalls, denied >>
    /\ UNCHANGED toolVars

\* an iteration that goes on without user input
ContinueWithoutInput ==
    /\ pc = "LoopTop"
    /\ ~SessionExpired(loopProtection, now)
    /\ ~readUserInput
    /\ loopProtection' = CountersAtLoopTop(loopProtection, readUserInput)
    /\ pc' = "Generating"
    /\ ev' = Event("continue", "", NoBlock, 0, "")
    /\ UNCHANGED << now, readUserInput, conversation, loopVars,
                    runResult, gens, nextId, histVars >>
    /\ UNCHANGED toolVars

\* generateResponse returns a message, appended to the conversation;
\* processToolUsages starts on it
GenerateResponse ==
    /\ pc = "Generating"
    /\ gens < MaxGen
    /\ gens' = gens + 1
    /\ \E r \in Responses :
          /\ message' = Blocks(r, nextId)
          /\ nextId' = nextId + Len(r)
          /\ conversation' = Append(conversation, AssistantContent(Blocks(r, nextId)))
    /\ idx' = 1
    /\ toolResults' = << >>
    /\ hasToolUses' = FALSE
    /\ pc' = "Processing"
    /\ ev' = Event("gen", "", NoBlock, 0, "")
    /\ Elapse
    /\ UNCHANGED << loopProtection, readUserInput, runResult, histVars >>
    /\ UNCHANGED toolVars

\* generateResponse fails: Run returns the error
GenerateFails ==
    /\ pc = "Generating"
    /\ gens < MaxGen
    /\ gens' = gens + 1
    /\ pc' = "Done"
    /\ runResult' = "error"
    /\ ev' = Event("genError", "", NoBlock, 0, "")
    /\ UNCHANGED << now, loopProtection, readUserInput, conversation, loopVars,
                    nextId, histVars >>
    /\ UNCHANGED toolVars

\* a text block is printed
ProcessText ==
    /\ pc = "Processing"
    /\ idx <= Len(message)
    /\ message[idx].type = "text"
    /\ idx' = idx + 1
    /\ ev' = Event("text", "", message[idx], idx, "")
    /\ UNCHANGED << pc, now, loopProtection, readUserInput, conversation, message,
                    toolResults, hasToolUses, runResult, gens, nextId, histVars >>
    /\ UNCHANGED toolVars

\* a tool_use block passes the checks: the tool is executed and its result kept
DispatchToolUse ==
    /\ pc = "Processing"
    /\ idx <= Len(message)
    /\ message[idx].type = "tool_use"
    /\ LET content == message[idx]
           check   == CheckLimits(loopProtection, content.name, now)
       IN  /\ check.violation = "none"
           /\ loopProtection' = check.lp
           /\ \E outcome \in HandlerOutcomes :
                 LET result == executeTool(content.id, content.name, outcome)
                 IN  /\ toolResults' = Append(toolResults, result.block)
                     /\ handlerCalls' = IF result.called
                                        THEN Append(handlerCalls, content.id)
                                        ELSE handlerCalls
                     /\ ev' = Event("exec", "", content, idx, outcome)
           /\ executed' = Append(executed, content.id)
           /\ checkedNames' = Append(checkedNames, content.name)
    /\ hasToolUses' = TRUE
    /\ attempts' = attempts + 1
    /\ idx' = idx + 1
    /\ Elapse
    /\ UNCHANGED << pc, readUserInput, conversation, message, runResult,
                    gens, nextId, denied, reads >>
    /\ UNCHANGED toolVars

\* a tool_use block trips a limit: processToolUsages returns the error and
\* Run asks for user input next
DenyToolUse ==
    /\ pc = "Processing"
    /\ idx <= Len(message)
    /\ message[idx].type = "tool_use"
    /\ LET content == message[idx]
           check   == CheckLimits(loopProtection, content.name, now)
       IN  /\ check.violation # "none"
           /\ loopProtection' = check.lp
           /\ checkedNames' = IF check.violation = "same-tool"
                              THEN Append(checkedNames, content.name)
                              ELSE checkedNames
           /\ denied' = denied \cup {content.id}
           /\ ev' = Event("deny", check.violation, content, idx, "")
    /\ hasToolUses' = TRUE
    /\ attempts' = attempts + 1
    /\ readUserInput' = AfterViolation(idx).readUserInput
    /\ pc' = AfterViolation(idx).pc
    /\ idx' = AfterViolation(idx).idx
    /\ runResult' = AfterViolation(idx).runResult
    /\ UNCHANGED << now, conversation, message, toolResults, gens, nextId,
                    executed, handlerCalls, reads >>
    /\ UNCHANGED toolVars

\* the response held no tool_use block: user input is read next
FinishWithoutToolUses ==
    /\ pc = "Processing"
    /\ idx > Len(message)
    /\ ~hasToolUses
    /\ readUserInput' = ReadNextWithoutToolUses
    /\ pc' = "LoopTop"
    /\ ev' = Event("noTools", "", NoBlock, 0, "")
    /\ UNCHANGED << now, loopProtection, conversation, loopVars, runResult,
                    gens, nextId, histVars >>
    /\ UNCHANGED toolVars

\* every block was processed: the results are appended as one user message
FinishBatch ==
    /\ pc = "Processing"
    /\ idx > Len(message)
    /\ hasToolUses
    /\ conversation' = Append(conversation, ToolResults(toolResults))
    /\ readUserInput' = ReadNextAfterBatch
    /\ pc' = "LoopTop"
    /\ ev' = Event("batchEnd", "", NoBlock, 0, "")
    /\ UNCHANGED << now, loopProtection, loopVars, runResult, gens, nextId,
                    histVars >>
    /\ UNCHANGED toolVars

Next ==
    \/ RunStart
    \/ SessionLimitReached
    \/ ReadUserInput
    \/ ContinueWithoutInput
    \/ GenerateResponse
    \/ GenerateFails
    \/ ProcessText
    \/ DispatchToolUse
    \/ DenyToolUse
    \/ FinishWithoutToolUses
    \/ FinishBatch

Spec == Init /\ [][Next]_vars

(* ------------------------------- startup -------------------------------- *)

\* definitions in a tool list
MaxTools == 3

ToolNames == {"read_file", "list_files"}

\* a tool definition: its name and the handler function it carries
ToolDefinitions == [Name : ToolNames, Function : {"F1", "F2"}]

\* the tool lists a configuration can hold
ToolLists == UNION {[1..n -> ToolDefinitions] : n \in 0..MaxTools}

\* config.Config and agent.Config: Client and GetUserMessage are TRUE when set
StartupConfigs == [Client : BOOLEAN, GetUserMessage : BOOLEAN, Tools : ToolLists]

\* Config.Validate: the error it returns, nil when there is none
Validate(c) ==
    IF ~c.Client THEN "Claude client is required"
    ELSE IF ~c.GetUserMessage THEN "GetUserMessage function is required"
    ELSE "nil"

\* agent.New: the fields of the agent it returns
New(c) ==
    [tools |-> c.Tools, client |-> c.Client, getUserMessage |-> c.GetUserMessage]

InitStartup ==
    /\ config \in StartupConfigs
    /\ startup = "loaded"
    /\ agentTools = << >>
    /\ lookup = NoLookup
    /\ RunIdle
    /\ EditorIdle
    /\ LimiterIdle

\* main validates the configuration and exits when it is invalid
ValidateConfig ==
    /\ startup = "loaded"
    /\ startup' = IF Validate(config) = "nil" THEN "validated" ELSE "rejected"
    /\ UNCHANGED << config, agentTools, lookup, runVars, editorVars, limiterVars >>

\* New builds the agent, for main after Validate or for any other caller
NewAgent ==
    /\ startup \in {"loaded", "validated"}
    /\ agentTools' = New(config).tools
    /\ startup' = "constructed"
    /\ UNCHANGED << config, lookup, runVars, editorVars, limiterVars >>

\* executeTool looks a requested name up
LookupTool ==
    /\ startup = "constructed"
    /\ \E name \in ToolNames \cup {"no_such_tool"} :
          LET i == findToolOf(agentTools, name)
          IN  lookup' = [name     |-> name,
                         index    |-> i,
                         function |-> IF i = 0 THEN "" ELSE agentTools[i].Function,
                         matches  |-> Cardinality({j \in 1..Len(agentTools) :
                                                     agentTools[j].Name = name})]
    /\ UNCHANGED << config, startup, agentTools, runVars, editorVars, limiterVars >>

NextStartup ==
    \/ ValidateConfig
    \/ NewAgent
    \/ LookupTool

SpecStartup == InitStartup /\ [][NextStartup]_vars

(* ------------------------------ the editor ------------------------------ *)

\* A string is the sequence of its characters.  The file operations are
\* taken to succeed: a failing disk or a path that is a directory is not
\* part of the model.

\* the largest line number a request carries
MaxLine == 5
\* calls of the editor in one run
MaxEdits == 2
\* the largest limit a request carries
MaxLimit == 3

NL == <<"\n">>

Take(s, n) == SubSeq(s, 1, n)
Drop(s, n) == SubSeq(s, n + 1, Len(s))

\* strings.Index: the offset of the first occurrence of sub in s, -1 when
\* there is none
Index(s, sub) ==
    LET hits == {i \in 0..(Len(s) - Len(sub)) : SubSeq(s, i + 1, i + Len(sub)) = sub}
    IN  IF hits = {} THEN -1 ELSE CHOOSE i \in hits : \A j \in hits : i <= j

CountOverlapping(s, sub) ==
    Cardinality({i \in 0..(Len(s) - Len(sub)) : SubSeq(s, i + 1, i + Len(sub)) = sub})

RECURSIVE Count(_, _)
\* strings.Count: the non-overlapping occurrences of sub in s
Count(s, sub) ==
    IF sub = << >> THEN Len(s) + 1
    ELSE LET i == Index(s, sub)
         IN  IF i = -1 THEN 0 ELSE 1 + Count(Drop(s, i + Len(sub)), sub)

RECURSIVE ReplaceAll(_, _, _)
\* strings.ReplaceAll: every non-overlapping occurrence, left to right (an
\* empty old matches before each character and at the end)
ReplaceAll(s, old, new) ==
    IF old = << >>
    THEN IF s = << >> THEN new
         ELSE new \o <<Head(s)>> \o ReplaceAll(Tail(s), old, new)
    ELSE LET i == Index(s, old)
         IN  IF i = -1 THEN s
             ELSE Take(s, i) \o new \o ReplaceAll(Drop(s, i + Len(old)), old, new)

RECURSIVE Split(_, _)
\* strings.Split, for a separator that is not empty
Split(s, sep) ==
    LET i == Index(s, sep)
    IN  IF i = -1 THEN <<s>>
        ELSE <<Take(s, i)>> \o Split(Drop(s, i + Len(sep)), sep)

RECURSIVE Join(_, _)
\* strings.Join
Join(elems, sep) ==
    IF elems = << >> THEN << >>
    ELSE IF Len(elems) = 1 THEN elems[1]
    ELSE elems[1] \o sep \o Join(Tail(elems), sep)

(* the file system: one path, in a directory that may be missing *)

\* os.MkdirAll on the directory of the path
MkdirAll(f) == [f EXCEPT !.dir = TRUE]

\* os.WriteFile: the file is created or truncated, then written
WriteFile(f, data) == [f EXCEPT !.exists = TRUE, !.content = data]

ensureFileExistsNever(f) == f

\* ensureFileExists: a missing file is created empty, with its directory
ensureFileExists(f) ==
    IF ~f.exists THEN WriteFile(MkdirAll(f), << >>) ELSE f

\* what a call returns: a message and no error, or an error
Succeeded(f, msg, count) ==
    [result |-> [err |-> FALSE, msg |-> msg, count |-> count], fs |-> f]
Failed(f, msg) ==
    [result |-> [err |-> TRUE, msg |-> msg, count |-> 0], fs |-> f]

createFileOverwrite(f, content) ==
    Succeeded(WriteFile(MkdirAll(f), content), "Successfully created file", 0)

\* createFile
createFile(f, content) ==
    IF f.exists
    THEN Succeeded(f, "File already exists", 0)
    ELSE Succeeded(WriteFile(MkdirAll(f), content), "Successfully created file", 0)

RECURSIVE ReplaceLoopOneMore(_, _, _, _, _, _)
ReplaceLoopOneMore(remaining, oldStr, newStr, limit, count, parts) ==
    LET i == Index(remaining, oldStr)
    IN  IF count <= limit /\ i # -1
        THEN ReplaceLoopOneMore(Drop(remaining, i + Len(oldStr)), oldStr, newStr,
                                limit, count + 1, parts \o Take(remaining, i) \o newStr)
        ELSE [count |-> count, remaining |-> remaining, parts |-> parts]

RECURSIVE ReplaceLoop(_, _, _, _, _, _)
\* the loop of replaceInFile under a positive limit: parts holds the joined
\* parts, remaining the text not yet searched
ReplaceLoop(remaining, oldStr, newStr, limit, count, parts) ==
    LET i == Index(remaining, oldStr)
    IN  IF count < limit /\ i # -1
        THEN ReplaceLoop(Drop(remaining, i + Len(oldStr)), oldStr, newStr, limit,
                         count + 1, parts \o Take(remaining, i) \o newStr)
        ELSE [count |-> count, remaining |-> remaining, parts |-> parts]

\* the new content and the count of replaceInFile
ReplaceOccurrences(fileContent, oldStr, newStr, limit) ==
    IF limit > 0
    THEN LET loop == ReplaceLoop(fileContent, oldStr, newStr, limit, 0, << >>)
         IN  [content |-> IF loop.count > 0 THEN loop.parts \o loop.remaining
                          ELSE fileContent,
              count   |-> loop.count]
    ELSE [content |-> ReplaceAll(fileContent, oldStr, newStr),
          count   |-> Count(fileContent, oldStr)]

IdenticalNever(oldStr, newStr) == FALSE

\* the test for a replacement that changes nothing
Identical(oldStr, newStr) == oldStr = newStr

\* replaceInFile
replaceInFile(f, oldStr, newStr, limit) ==
    IF oldStr = << >> THEN Failed(f, "old_str cannot be empty")
    ELSE IF Identical(oldStr, newStr)
    THEN Succeeded(f, "No changes needed - old_str and new_str are identical", 0)
    ELSE LET f1 == ensureFileExists(f)
             r  == ReplaceOccurrences(f1.content, oldStr, newStr, limit)
         IN  IF f1.content = r.content
             THEN Failed(f1, "old_str not found in file")
             ELSE Succeeded(WriteFile(f1, r.content), "Successfully replaced", r.count)

appendToFileTruncating(f, content) ==
    Succeeded(WriteFile(ensureFileExists(f), content), "Successfully appended", 0)

\* appendToFile
appendToFile(f, content) ==
    LET f1 == ensureFileExists(f)
    IN  Succeeded(WriteFile(f1, f1.content \o content), "Successfully appended", 0)

\* prependToFile
prependToFile(f, content) ==
    LET f1 == ensureFileExists(f)
    IN  Succeeded(WriteFile(f1, content \o f1.content), "Successfully prepended", 0)

InsertLineAfter(lines, content, lineNumber) ==
    IF lineNumber > Len(lines) THEN Append(lines, content)
    ELSE SubSeq(lines, 1, lineNumber) \o <<content>>
             \o SubSeq(lines, lineNumber + 1, Len(lines))

\* the lines of insertAtLine after the insertion
InsertLine(lines, content, lineNumber) ==
    IF lineNumber = 1 THEN <<content>> \o lines
    ELSE IF lineNumber > Len(lines) THEN Append(lines, content)
    ELSE SubSeq(lines, 1, lineNumber - 1) \o <<content>>
             \o SubSeq(lines, lineNumber, Len(lines))

\* insertAtLine
insertAtLine(f, content, lineNumber) ==
    IF lineNumber < 1 THEN Failed(f, "line number must be at least 1")
    ELSE LET f1    == ensureFileExists(f)
             lines == Split(f1.content, NL)
         IN  IF lineNumber > Len(lines) + 1
             THEN Failed(f1, "line number exceeds file length")
             ELSE Succeeded(WriteFile(f1, Join(InsertLine(lines, content, lineNumber), NL)),
                            "Successfully inserted", 0)

(* regular expressions: a compiled pattern is a sequence of atoms, each a
   literal character, \d+ or \B; no pattern here matches the empty string *)

Lit(c) == [c |-> c, kind |-> "lit"]
Digits == [c |-> "", kind |-> "digits"]
NotBoundary == [c |-> "", kind |-> "notBoundary"]

DigitChars == {"1", "2", "3"}
WordChars == {"a", "b", "f", "o", "r"} \cup DigitChars

\* regexp.Compile, on the patterns the requests carry
Compile(pattern) ==
    CASE pattern = "foo\\d+" ->
             [atoms |-> <<Lit("f"), Lit("o"), Lit("o"), Digits>>, ok |-> TRUE]
      [] pattern = "a"     -> [atoms |-> <<Lit("a")>>, ok |-> TRUE]
      [] pattern = "\\Ba"  -> [atoms |-> <<NotBoundary, Lit("a")>>, ok |-> TRUE]
      [] OTHER             -> [atoms |-> << >>, ok |-> FALSE]

\* \b holds before s[p]: exactly one of the characters around the position
\* is a word character
AtWordBoundary(s, p) ==
    (p > 1 /\ s[p - 1] \in WordChars) # (p <= Len(s) /\ s[p] \in WordChars)

RECURSIVE MatchEnd(_, _, _, _)
\* the preferred match of atoms[i..] in s starting before s[p]: the position
\* after its last character, 0 when there is none (\d+ is greedy)
MatchEnd(atoms, i, s, p) ==
    IF i > Len(atoms) THEN p
    ELSE LET a == atoms[i]
         IN  CASE a.kind = "lit" ->
                      IF p <= Len(s) /\ s[p] = a.c
                      THEN MatchEnd(atoms, i + 1, s, p + 1) ELSE 0
               [] a.kind = "digits" ->
                      LET ends == {q \in (p + 1)..(Len(s) + 1) :
                                      /\ \A k \in p..(q - 1) : s[k] \in DigitChars
                                      /\ MatchEnd(atoms, i + 1, s, q) # 0}
                      IN  IF ends = {} THEN 0
                          ELSE MatchEnd(atoms, i + 1, s,
                                        CHOOSE q \in ends : \A r \in ends : q >= r)
               [] a.kind = "notBoundary" ->
                      IF ~AtWordBoundary(s, p)
                      THEN MatchEnd(atoms, i + 1, s, p) ELSE 0

RECURSIVE FindAll(_, _, _)
\* the matches of the pattern in s from position pos on: leftmost first,
\* each search starting where the match before it ended
FindAll(atoms, s, pos) ==
    LET starts == {p \in pos..Len(s) : MatchEnd(atoms, 1, s, p) # 0}
    IN  IF starts = {} THEN << >>
        ELSE LET p == CHOOSE q \in starts : \A r \in starts : q <= r
                 e == MatchEnd(atoms, 1, s, p)
             IN  <<[from |-> p, to |-> e]>> \o FindAll(atoms, s, e)

RECURSIVE ReplaceMatches(_, _, _, _)
\* s from position from on, each of the matches ms replaced by repl
ReplaceMatches(s, ms, from, repl) ==
    IF ms = << >> THEN SubSeq(s, from, Len(s))
    ELSE SubSeq(s, from, Head(ms).from - 1) \o repl
             \o ReplaceMatches(s, Tail(ms), Head(ms).to, repl)

\* Regexp.ReplaceAllString, for a replacement without $
ReplaceAllString(atoms, s, repl) ==
    ReplaceMatches(s, FindAll(atoms, s, 1), 1, repl)

RECURSIVE ReplaceAllStringFunc(_, _, _, _, _, _, _)
\* Regexp.ReplaceAllStringFunc with the closure of regexReplaceInFile: the
\* closure counts the matches it is called with and, while the count is
\* below the limit, returns ReplaceAllString of the matched text
ReplaceAllStringFunc(atoms, s, ms, from, newStr, limit, count) ==
    IF ms = << >> THEN [content |-> SubSeq(s, from, Len(s)), count |-> count]
    ELSE LET m     == Head(ms)
             match == SubSeq(s, m.from, m.to - 1)
             repl  == IF count < limit
                      THEN ReplaceAllString(atoms, match, newStr) ELSE match
             rest  == ReplaceAllStringFunc(atoms, s, Tail(ms), m.to, newStr, limit,
                                           IF count < limit THEN count + 1 ELSE count)
         IN  [content |-> SubSeq(s, from, m.from - 1) \o repl \o rest.content,
              count   |-> rest.count]

\* the new content and the count of regexReplaceInFile
ReplaceMatching(atoms, fileContent, newStr, limit) ==
    IF limit > 0
    THEN ReplaceAllStringFunc(atoms, fileContent, FindAll(atoms, fileContent, 1), 1,
                              newStr, limit, 0)
    ELSE [content |-> ReplaceAllString(atoms, fileContent, newStr),
          count   |-> Len(FindAll(atoms, fileContent, 1))]

\* regexReplaceInFile
regexReplaceInFile(f, pattern, newStr, limit) ==
    IF pattern = "" THEN Failed(f, "pattern cannot be empty")
    ELSE LET f1    == ensureFileExists(f)
             regex == Compile(pattern)
         IN  IF ~regex.ok THEN Failed(f1, "invalid regex pattern")
             ELSE LET r == ReplaceMatching(regex.atoms, f1.content, newStr, limit)
                  IN  IF f1.content = r.content
                      THEN Failed(f1, "pattern not matched in file")
                      ELSE Succeeded(WriteFile(f1, r.content),
                                     "Successfully replaced", r.count)

ContentMissingNever(content) == FALSE

\* the test create makes of its content
ContentMissing(content) == content = << >>

\* EditFileContent
EditFileContent(f, input) ==
    IF ~input.parses THEN Failed(f, "failed to parse input")
    ELSE IF input.path = "" THEN Failed(f, "path cannot be empty")
    ELSE CASE input.mode = "create" ->
                  IF ContentMissing(input.content)
                  THEN Failed(f, "cannot create an empty file, content is required")
                  ELSE createFile(f, input.content)
           [] input.mode = "replace" ->
                  replaceInFile(f, input.oldStr, input.newStr, input.limit)
           [] input.mode = "regex_replace" ->
                  regexReplaceInFile(f, input.pattern, input.newStr, input.limit)
           [] input.mode = "append" -> appendToFile(f, input.content)
           [] input.mode = "prepend" -> prependToFile(f, input.content)
           [] input.mode = "insert_at_line" ->
                  insertAtLine(f, input.content, input.lineNumber)
           [] OTHER -> Failed(f, "invalid mode")

(* the inputs of the editor *)

\* file bodies: empty, of one or two characters, with and without line
\* breaks, with repeated and overlapping occurrences, and the body of the
\* spec's regex_replace scenario
Texts ==
    {<< >>, <<"a">>, <<"b">>, NL, <<"a", "a">>, <<"a", "b">>, <<"b", "a">>,
     <<"a", "\n">>, <<"\n", "a">>, <<"a", "\n", "b">>,
     <<"a", "a", "a", "a">>,
     <<"a", "b", "\n", "a", "b", "\n", "a", "b">>,
     <<"f", "o", "o", "1", " ", "f", "o", "o", "2", " ", "f", "o", "o", "3">>}

\* the file before the first call: missing with or without its directory,
\* or there with some body
Files ==
    {NoFile, [content |-> << >>, dir |-> TRUE, exists |-> FALSE]}
    \cup {[content |-> t, dir |-> TRUE, exists |-> TRUE] : t \in Texts}

Contents == {<< >>, <<"a">>, <<"b", "\n">>, <<"a", "\n", "b">>}
OldStrs == {<< >>, <<"a">>, <<"a", "a">>, <<"a", "b">>}
NewStrs == {<< >>, <<"a">>, <<"b">>, <<"a", "a">>, <<"b", "a", "r">>}
Patterns == {"", "(", "foo\\d+", "a", "\\Ba"}
Limits == 0..MaxLimit
LineNumbers == -1..MaxLine

\* the parsed input of a call: the fields a mode does not use are zero
Input(mode, content, oldStr, newStr, pattern, lineNumber, limit) ==
    [content |-> content, parses |-> TRUE, path |-> "dir/file", mode |-> mode,
     oldStr |-> oldStr, newStr |-> newStr, pattern |-> pattern,
     lineNumber |-> lineNumber, limit |-> limit]

\* inputs the handler turns down before it looks at the file: one that does
\* not parse, one without a path and one of an unknown mode
RejectedInputs ==
    {[content |-> << >>, parses |-> FALSE, path |-> "", mode |-> "",
      oldStr |-> << >>, newStr |-> << >>, pattern |-> "", lineNumber |-> 0,
      limit |-> 0],
     [content |-> <<"a">>, parses |-> TRUE, path |-> "", mode |-> "create",
      oldStr |-> << >>, newStr |-> << >>, pattern |-> "", lineNumber |-> 0,
      limit |-> 0],
     Input("delete", << >>, << >>, << >>, "", 0, 0)}

(* the editor called on its own *)

InitEditor ==
    /\ fs \in Files
    /\ fsBefore = fs
    /\ editRequest = NoRequest
    /\ editResult = NoResult
    /\ edits = 0
    /\ RunIdle
    /\ RegistryIdle
    /\ LimiterIdle

\* one call of the handler of file_editor
Call(input) ==
    /\ edits < MaxEdits
    /\ editRequest = NoRequest
    /\ fs' = EditFileContent(fs, input).fs
    /\ editResult' = EditFileContent(fs, input).result
    /\ fsBefore' = fs
    /\ editRequest' = input
    /\ edits' = edits + 1
    /\ UNCHANGED << runVars, registryVars, limiterVars >>

Create ==
    \E c \in Contents : Call(Input("create", c, << >>, << >>, "", 0, 0))

Replace ==
    \E o \in OldStrs, n \in NewStrs, l \in Limits :
        Call(Input("replace", << >>, o, n, "", 0, l))

RegexReplace ==
    \E p \in Patterns, n \in NewStrs, l \in Limits :
        Call(Input("regex_replace", << >>, << >>, n, p, 0, l))

AppendContent ==
    \E c \in Contents : Call(Input("append", c, << >>, << >>, "", 0, 0))

PrependContent ==
    \E c \in Contents : Call(Input("prepend", c, << >>, << >>, "", 0, 0))

InsertAtLine ==
    \E c \in Contents, l \in LineNumbers :
        Call(Input("insert_at_line", c, << >>, << >>, "", l, 0))

RejectInput ==
    \E input \in RejectedInputs : Call(input)

\* the result is handed to the caller before the next call; the handler
\* keeps nothing of the call
Return ==
    /\ edits < MaxEdits
    /\ editRequest # NoRequest
    /\ editRequest' = NoRequest
    /\ editResult' = NoResult
    /\ fsBefore' = fs
    /\ UNCHANGED << fs, edits, runVars, registryVars, limiterVars >>

NextEditor ==
    \/ Return
    \/ Create
    \/ Replace
    \/ RegexReplace
    \/ AppendContent
    \/ PrependContent
    \/ InsertAtLine
    \/ RejectInput

SpecEditor == InitEditor /\ [][NextEditor]_vars

(* --------------------------- the action limiter ------------------------- *)

\* calls of ActionLimiter in one run
MaxCalls == 3

\* the limits of checkLimits
TotalActionsLimit == 50
TargetActionsLimit == 10
ConsecutiveSameLimit == 5
RapidActions == 10
RapidSeconds == 5
SessionSeconds == 300

\* the times at which the clock is read, seconds
Times == {0, 5, 301}

\* the ActionStats literal of initializeStats, recordAction and resetStats
NewStats(t) == [ZeroStats EXCEPT !.StartTime = t, !.LastActionTime = t]

\* initializeStats, under the mutex
initializeStats(s, initialized, t) == IF ~initialized THEN NewStats(t) ELSE s

\* the limit of checkLimits, at or past which a count denies
CountPast(count, limit) == count > limit

CountReached(count, limit) == count >= limit

\* checkLimits, under the mutex: the limit that is exceeded, none when
\* there is none
checkLimits(s, initialized, t) ==
    IF ~initialized THEN "none"
    ELSE IF CountReached(s.TotalActions, TotalActionsLimit) THEN "total"
    ELSE IF \E target \in TargetNames :
               CountReached(s.ActionsByTarget[target], TargetActionsLimit)
    THEN "target"
    ELSE IF CountReached(s.ConsecutiveSame, ConsecutiveSameLimit)
    THEN "consecutive"
    ELSE IF s.TotalActions > RapidActions /\ t - s.StartTime < RapidSeconds
    THEN "rapid"
    ELSE IF t - s.StartTime > SessionSeconds THEN "session"
    ELSE "none"

\* recordAction, under the mutex
recordAction(s, initialized, action, target, t) ==
    LET s0 == IF ~initialized THEN NewStats(t) ELSE s
    IN  [s0 EXCEPT !.TotalActions = @ + 1,
                   !.ActionsByType[action] = @ + 1,
                   !.ActionsByTarget[target] = @ + 1,
                   !.ActionsByTypePath[action][target] = @ + 1,
                   !.ConsecutiveSame =
                       IF action = s0.LastAction /\ target = s0.LastTarget
                       THEN @ + 1 ELSE 1,
                   !.LastAction = action,
                   !.LastTarget = target,
                   !.LastActionTime = t]

\* resetStats, under the mutex
resetStats(t) == NewStats(t)

RecordsAlways(input) == TRUE

\* whether ActionLimiter records the action once the limits are passed
Records(input) == ~input.CheckOnly /\ input.Action # ""

\* the inputs of ActionLimiter
LimiterInput(action, target, checkOnly, resetState) ==
    [parses |-> TRUE, Action |-> action, Target |-> target,
     CheckOnly |-> checkOnly, ResetState |-> resetState]

LimiterInputs ==
    {NoLimiterInput,
     LimiterInput("edit_file", "a.go", FALSE, FALSE),
     LimiterInput("edit_file", "b.go", FALSE, FALSE),
     LimiterInput("create_file", "a.go", FALSE, FALSE),
     LimiterInput("edit_file", "a.go", TRUE, FALSE),
     LimiterInput("", "a.go", FALSE, FALSE),
     LimiterInput("", "", FALSE, TRUE),
     LimiterInput("edit_file", "a.go", TRUE, TRUE)}

\* the stats after initializeStats at time 0 and the actions of seq (not
\* empty), recorded one after the other by recordAction at time t
Replay(seq, t) ==
    LET n      == Len(seq)
        last   == seq[n]
        others == {i \in 1..n : seq[i] # last}
        run    == IF others = {} THEN n
                  ELSE n - (CHOOSE i \in others : \A j \in others : j <= i)
        by(a, target) ==
            Cardinality({i \in 1..n : seq[i][1] \in a /\ seq[i][2] \in target})
    IN  [TotalActions      |-> n,
         ActionsByType     |-> [a \in ActionNames |-> by({a}, TargetNames)],
         ActionsByTarget   |-> [target \in TargetNames |-> by(ActionNames, {target})],
         ActionsByTypePath |-> [a \in ActionNames |->
                                   [target \in TargetNames |-> by({a}, {target})]],
         StartTime         |-> 0,
         LastActionTime    |-> t,
         ConsecutiveSame   |-> run,
         LastAction        |-> last[1],
         LastTarget        |-> last[2]]

\* n edits that go round the six targets
RoundTheTargets(n) ==
    LET order == <<"a.go", "b.go", "c.go", "d.go", "e.go", "f.go">>
    IN  [i \in 1..n |-> <<"edit_file", order[((i - 1) % 6) + 1]>>]

\* what was recorded before the run: nothing, a few edits, edits that
\* leave one more before a limit of each kind
Recorded ==
    {<< >>,
     RoundTheTargets(TotalActionsLimit - 2),
     RoundTheTargets(TotalActionsLimit - 1),
     <<<<"edit_file", "a.go">>, <<"edit_file", "a.go">>, <<"edit_file", "a.go">>,
       <<"edit_file", "a.go">>, <<"edit_file", "b.go">>, <<"edit_file", "a.go">>,
       <<"edit_file", "a.go">>, <<"edit_file", "a.go">>, <<"edit_file", "a.go">>,
       <<"edit_file", "b.go">>, <<"edit_file", "a.go">>>>,
     <<<<"edit_file", "a.go">>, <<"edit_file", "a.go">>, <<"edit_file", "a.go">>,
       <<"edit_file", "a.go">>>>}

\* the process has not called ActionLimiter yet, or has recorded actions
\* five seconds after the first call
InitLimiter ==
    /\ \E seq \in Recorded :
          /\ isInitialized = (seq # << >>)
          /\ stats = IF seq = << >> THEN ZeroStats ELSE Replay(seq, 5)
          /\ clock = IF seq = << >> THEN 0 ELSE 5
          /\ recorded = Len(seq)
    /\ lpc = [p \in Callers |-> "idle"]
    /\ linput = [p \in Callers |-> NoLimiterInput]
    /\ lresult = [p \in Callers |-> "none"]
    /\ calls = 0
    /\ RunIdle
    /\ RegistryIdle
    /\ EditorIdle

\* time passes
LimiterTick ==
    /\ \E t \in Times : t > clock /\ clock' = t
    /\ UNCHANGED << stats, isInitialized, lpc, linput, lresult, calls, recorded >>
    /\ UNCHANGED << runVars, registryVars, editorVars >>

\* a caller enters ActionLimiter: the input is parsed, and unless that
\* fails initializeStats runs
LimiterCall(p) ==
    /\ lpc[p] = "idle"
    /\ calls < MaxCalls
    /\ calls' = calls + 1
    /\ \E input \in LimiterInputs :
          IF ~input.parses
          THEN /\ lresult' = [lresult EXCEPT ![p] = "parseError"]
               /\ UNCHANGED << stats, isInitialized, lpc, linput >>
          ELSE /\ stats' = initializeStats(stats, isInitialized, clock)
               /\ isInitialized' = TRUE
               /\ lpc' = [lpc EXCEPT ![p] = "initialized"]
               /\ linput' = [linput EXCEPT ![p] = input]
               /\ lresult' = [lresult EXCEPT ![p] = "none"]
    /\ UNCHANGED << clock, recorded >>
    /\ UNCHANGED << runVars, registryVars, editorVars >>

\* reset_state: resetStats runs and the call returns
LimiterReset(p) ==
    /\ lpc[p] = "initialized"
    /\ linput[p].ResetState
    /\ stats' = resetStats(clock)
    /\ recorded' = 0
    /\ lpc' = [lpc EXCEPT ![p] = "idle"]
    /\ linput' = [linput EXCEPT ![p] = NoLimiterInput]
    /\ lresult' = [lresult EXCEPT ![p] = "reset"]
    /\ UNCHANGED << isInitialized, clock, calls >>
    /\ UNCHANGED << runVars, registryVars, editorVars >>

\* checkLimits runs; the call returns when a limit is exceeded
LimiterCheck(p) ==
    /\ lpc[p] = "initialized"
    /\ ~linput[p].ResetState
    /\ IF checkLimits(stats, isInitialized, clock) # "none"
       THEN /\ lpc' = [lpc EXCEPT ![p] = "idle"]
            /\ linput' = [linput EXCEPT ![p] = NoLimiterInput]
            /\ lresult' = [lresult EXCEPT ![p] = "exceeded"]
       ELSE /\ lpc' = [lpc EXCEPT ![p] = "checked"]
            /\ UNCHANGED << linput, lresult >>
    /\ UNCHANGED << stats, isInitialized, clock, calls, recorded >>
    /\ UNCHANGED << runVars, registryVars, editorVars >>

\* recordAction runs, in a critical section of its own
LimiterRecord(p) ==
    /\ lpc[p] = "checked"
    /\ Records(linput[p])
    /\ stats' = recordAction(stats, isInitialized, linput[p].Action,
                             linput[p].Target, clock)
    /\ isInitialized' = TRUE
    /\ recorded' = recorded + 1
    /\ lpc' = [lpc EXCEPT ![p] = "recorded"]
    /\ UNCHANGED << clock, linput, lresult, calls >>
    /\ UNCHANGED << runVars, registryVars, editorVars >>

\* the stats are returned (their text is not kept)
LimiterReturn(p) ==
    /\ \/ lpc[p] = "recorded"
       \/ lpc[p] = "checked" /\ ~Records(linput[p])
    /\ lpc' = [lpc EXCEPT ![p] = "idle"]
    /\ linput' = [linput EXCEPT ![p] = NoLimiterInput]
    /\ lresult' = [lresult EXCEPT ![p] = "stats"]
    /\ UNCHANGED << stats, isInitialized, clock, calls, recorded >>
    /\ UNCHANGED << runVars, registryVars, editorVars >>

NextLimiter ==
    \/ LimiterTick
    \/ \E p \in Callers : LimiterCall(p)
    \/ \E p \in Callers : LimiterReset(p)
    \/ \E p \in Callers : LimiterCheck(p)
    \/ \E p \in Callers : LimiterRecord(p)
    \/ \E p \in Callers : LimiterReturn(p)

SpecLimiter == InitLimiter /\ [][NextLimiter]_vars

(* ------------------------------- claims --------------------------------- *)

Attempted == ev.kind \in {"exec", "deny"}
DeniedBy(reason) == ev.kind = "deny" /\ ev.reason = reason
RegisteredNames == {tools[i].Name : i \in 1..Len(tools)}

\* ids of the tool_use blocks of a sequence of content blocks, in order
ToolUseIds(blocks) ==
    LET F[i \in 0..Len(blocks)] ==
            IF i = 0 THEN << >>
            ELSE IF blocks[i].type = "tool_use"
                 THEN Append(F[i - 1], blocks[i].id) ELSE F[i - 1]
    IN  F[Len(blocks)]

\* ids of a sequence of result blocks, in order
ResultIds(blocks) == [i \in 1..Len(blocks) |-> blocks[i].id]

\* length of the run of equal names that ends a sequence of names
TrailingRun(s) ==
    LET F[i \in 0..Len(s)] ==
            IF i = 0 THEN 0
            ELSE IF i > 1 /\ s[i] = s[i - 1] THEN F[i - 1] + 1 ELSE 1
    IN  F[Len(s)]

\* C1: with MaxConsecutiveToolUses = M, none of the first M tool uses after a
\* user-input read is denied by the consecutive check, use M+1 is denied by
\* it, the denied block is never passed to executeTool, and unless the
\* session limit trips the step after the denial is a user-input read.
C1_ConsecutiveLimit ==
    LET M == loopProtection.MaxConsecutiveToolUses
    IN  /\ Attempted =>
              /\ attempts <= M + 1
              /\ attempts <= M => ~DeniedBy("consecutive")
              /\ attempts = M + 1 =>
                    /\ DeniedBy("consecutive")
                    /\ pc = "LoopTop" /\ readUserInput /\ runResult = "running"
        /\ \A id \in denied : id \notin Range(executed) /\ id \notin Range(handlerCalls)
        /\ (ev.prev = "deny" /\ ev.prevReason = "consecutive" /\ ev.kind # "sessionEnd")
              => ev.kind \in {"read", "eof"}

\* C1 witness: the third tool use after a read is denied under a limit of 2
C1_Witness ==
    /\ DeniedBy("consecutive")
    /\ loopProtection.MaxConsecutiveToolUses = 2
    /\ attempts = 3
    /\ Len(executed) >= 2

\* the tool use just processed reached the same-tool check
ReachedSameToolCheck == ev.kind = "exec" \/ DeniedBy("same-tool")

\* the tool use just processed names the tool of the use checked before it
ImmediateRepeat ==
    LET n == Len(checkedNames)
    IN  n >= 2 /\ checkedNames[n] = checkedNames[n - 1]

\* the streak after a tool use that reached the same-tool check: 1 after a
\* change of name, one more than before after an immediate repeat
StreakFollowsNames ==
    /\ loopProtection.SameToolCallCount =
          (IF ImmediateRepeat THEN ev.before.SameToolCallCount + 1 ELSE 1)
    /\ loopProtection.SameToolCallCount = TrailingRun(checkedNames)

\* C2 as stated: on every tool use that reaches the same-tool check the
\* streak is 1 after a change of name and one more after a repeat, and the
\* use is denied exactly when the streak reaches MaxSameToolCalls, for every
\* MaxSameToolCalls >= 1.
C2_DeniedWhenStreakReachesMax ==
    ReachedSameToolCheck =>
        /\ StreakFollowsNames
        /\ DeniedBy("same-tool") <=>
              (loopProtection.SameToolCallCount = loopProtection.MaxSameToolCalls)

\* C2 amended: the streak follows the names as stated; the use is denied
\* exactly when an immediate repeat brings the streak to MaxSameToolCalls or
\* more, so a streak of 1 set by a change of name is never denied: for
\* MaxSameToolCalls >= 2 denial fires exactly when the streak first reaches
\* the maximum, for MaxSameToolCalls = 1 it fires at a streak of 2.
C2_SameToolStreak ==
    ReachedSameToolCheck =>
        LET streak == loopProtection.SameToolCallCount
            max    == loopProtection.MaxSameToolCalls
        IN  /\ StreakFollowsNames
            /\ DeniedBy("same-tool") <=> (ImmediateRepeat /\ streak >= max)
            /\ max >= 2 => (DeniedBy("same-tool") <=> streak = max)
            /\ max = 1 => (DeniedBy("same-tool") <=> streak = 2)

\* C2 witness: under a maximum of 3 two calls of one tool raise the streak to
\* 2, a call of another tool sets it back to 1 and that tool's repeat makes it 2
C2_Witness ==
    /\ ev.kind = "exec"
    /\ loopProtection.MaxSameToolCalls = 3
    /\ loopProtection.SameToolCallCount = 2
    /\ Len(checkedNames) = 4
    /\ checkedNames[1] = checkedNames[2]
    /\ checkedNames[2] # checkedNames[3]

\* minutes between the anchor of the rate window and the tool use just processed
ElapsedAtAttempt == ev.at - ev.before.ToolUseStartTime

\* tool uses in the rate window, the one just processed included
CountAtAttempt == ev.before.ToolUseCount + 1

WindowIsReset ==
    /\ loopProtection.ToolUseCount = 1
    /\ loopProtection.ToolUseStartTime = ev.at

\* C3 as stated: a tool use is denied when at most a minute has passed since
\* the anchor and the count, this use included, has reached
\* MaxToolUsesPerMinute; a use made later than that is not rate-denied and
\* resets the window: count 1, anchor the time of the use.
C3_EveryLateUseResetsWindow ==
    Attempted =>
        /\ (ElapsedAtAttempt <= 1
              /\ CountAtAttempt >= loopProtection.MaxToolUsesPerMinute)
              => ev.kind = "deny"
        /\ ElapsedAtAttempt > 1 => (~DeniedBy("rate") /\ WindowIsReset)

\* C3 amended: the denial is as stated; a use made more than a minute after
\* the anchor is never rate-denied, and it resets the window (count 1, anchor
\* the time of the use) when it passes the consecutive-use check; when that
\* check denies it, the anchor stays and the count keeps its increment.
C3_RateWindow ==
    Attempted =>
        /\ (ElapsedAtAttempt <= 1
              /\ CountAtAttempt >= loopProtection.MaxToolUsesPerMinute)
              => ev.kind = "deny"
        /\ ElapsedAtAttempt > 1 =>
              /\ ~DeniedBy("rate")
              /\ ~DeniedBy("consecutive") => WindowIsReset
              /\ DeniedBy("consecutive") =>
                    /\ loopProtection.ToolUseStartTime = ev.before.ToolUseStartTime
                    /\ loopProtection.ToolUseCount = CountAtAttempt
        /\ (ElapsedAtAttempt <= 1 /\ ~DeniedBy("consecutive")) =>
              /\ DeniedBy("rate") <=>
                    CountAtAttempt >= loopProtection.MaxToolUsesPerMinute
              /\ loopProtection.ToolUseStartTime = ev.before.ToolUseStartTime
              /\ loopProtection.ToolUseCount = CountAtAttempt

\* C2 witness of the denial: the third call in a row of one tool is denied
\* under a maximum of 3
C2_WitnessDenied ==
    /\ DeniedBy("same-tool")
    /\ loopProtection.MaxSameToolCalls = 3
    /\ loopProtection.SameToolCallCount = 3

\* C3 witness: a tool use two minutes after the anchor, with the window
\* already full, is let through and restarts the window
C3_Witness ==
    /\ ev.kind = "exec"
    /\ ElapsedAtAttempt > 1
    /\ ev.before.ToolUseCount >= loopProtection.MaxToolUsesPerMinute
    /\ WindowIsReset

\* C3 witness of the denial: a use exactly one minute after the anchor is
\* rate-denied
C3_WitnessDenied ==
    /\ DeniedBy("rate")
    /\ ElapsedAtAttempt = 1
    /\ CountAtAttempt = loopProtection.MaxToolUsesPerMinute

\* the turn after turn i holds exactly the results of turn i's tool uses, in order
ResultsFollow(i) ==
    /\ i < Len(conversation)
    /\ conversation[i + 1].kind = "ToolResults"
    /\ ResultIds(conversation[i + 1].blocks) = ToolUseIds(conversation[i].blocks)

\* C4: whenever the conversation is about to be sent to the completion
\* engine, every assistant turn with tool invocations is followed by one
\* result per invocation, same ids, same order, also after a batch in which
\* a limit tripped.
C4_ResultPairing ==
    pc = "Generating" =>
        \A i \in 1..Len(conversation) :
            (conversation[i].kind = "AssistantContent"
               /\ ToolUseIds(conversation[i].blocks) # << >>)
               => ResultsFollow(i)

\* the loop-top step that follows a step of the given kind
FollowedBySessionEnd ==
    /\ ev.kind = "sessionEnd"
    /\ SessionExpired(ev.before, ev.at)
    /\ pc = "Done"
    /\ runResult = "nil"

FollowedByRead ==
    /\ ev.kind \in {"read", "eof"}
    /\ ~SessionExpired(ev.before, ev.at)

FollowedByGeneration ==
    /\ ev.kind = "continue"
    /\ ~SessionExpired(ev.before, ev.at)
    /\ pc = "Generating"

\* C5 as stated: after a denial Run has not returned, and the step that
\* follows the denial is a user-input read.
C5_DenialThenRead ==
    /\ ev.kind = "deny" => (pc = "LoopTop" /\ readUserInput /\ runResult = "running")
    /\ ev.prev = "deny" => ev.kind \in {"read", "eof"}

\* C5 amended: a denial never makes Run return: Run is back at the top of
\* its loop, set to read user input; the step that follows is that read,
\* unless the session-duration limit is found exceeded there, in which case
\* Run returns nil without reading; no generation request is made in between.
C5_DenialNeverFatal ==
    /\ ev.kind = "deny" => (pc = "LoopTop" /\ readUserInput /\ runResult = "running")
    /\ ev.prev = "deny" => (FollowedByRead \/ FollowedBySessionEnd)
    /\ runResult = "error" => ev.kind = "genError"

\* C5 witness: a denial was followed by a user-input read that returned a line
C5_Witness ==
    /\ ev.prev = "deny"
    /\ ev.kind = "read"
    /\ pc = "Generating"

\* C5 witness of the exception: a denial was followed by the end of the session
C5_WitnessSessionEnd ==
    /\ ev.prev = "deny"
    /\ ev.kind = "sessionEnd"

\* the last two turns are the response just processed and its results
BatchAppended ==
    LET n == Len(conversation)
    IN  /\ n >= 2
        /\ conversation[n - 1] = AssistantContent(message)
        /\ conversation[n].kind = "ToolResults"
        /\ conversation[n].blocks = toolResults
        /\ ResultIds(toolResults) = ToolUseIds(message)
        /\ ToolUseIds(message) # << >>

\* the last turn is the response just processed
NothingAppended ==
    LET n == Len(conversation)
    IN  /\ n >= 1
        /\ conversation[n] = AssistantContent(message)
        /\ ToolUseIds(message) = << >>

\* C6 as stated: after a response with tool invocations and no denial one
\* ToolResults turn with all their results is appended and the next step is a
\* generation request, no user input being read; after a response without
\* tool invocation nothing is appended and the next step is a user-input read.
C6_NextStepAfterResponse ==
    /\ ev.kind = "batchEnd" => (BatchAppended /\ ~readUserInput)
    /\ ev.prev = "batchEnd" => ev.kind = "continue"
    /\ ev.kind = "noTools" => (NothingAppended /\ readUserInput)
    /\ ev.prev = "noTools" => ev.kind \in {"read", "eof"}

\* C6 amended: the turns are appended as stated; the next step is the
\* generation request (no user input read), respectively the user-input
\* read, unless the session-duration limit is found exceeded at the top of
\* the next iteration, in which case Run returns nil instead.
C6_OrchestratorTransitions ==
    /\ ev.kind = "batchEnd" => (BatchAppended /\ ~readUserInput /\ pc = "LoopTop")
    /\ ev.prev = "batchEnd" => (FollowedByGeneration \/ FollowedBySessionEnd)
    /\ ev.kind = "continue" => ev.prev = "batchEnd"
    /\ ev.prev = "continue" => ev.kind \in {"gen", "genError"}
    /\ ev.kind = "noTools" => (NothingAppended /\ readUserInput /\ pc = "LoopTop")
    /\ ev.prev = "noTools" => (FollowedByRead \/ FollowedBySessionEnd)

\* C6 witness: a batch of two tool uses was appended as one turn and the
\* next response was generated without a user-input read in between
C6_Witness ==
    /\ ev.kind = "gen"
    /\ ev.prev = "continue"
    /\ reads = 1
    /\ Len(conversation) = 4
    /\ conversation[3].kind = "ToolResults"
    /\ Len(conversation[3].blocks) = 2

\* C6 witness of the other transition: a response without tool invocation
\* was followed by a user-input read
C6_WitnessRead ==
    /\ ev.kind = "read"
    /\ ev.prev = "noTools"
    /\ Len(conversation) = 3

\* C7: the tool uses of a response are handled one at a time in the order
\* they appear: executeTool is called in that order, while block idx is next
\* every tool_use block before it has been executed and none from it on;
\* once the block at index i is denied, no block of that response at an
\* index >= i is ever executed.
C7_SequentialBatch ==
    /\ \A i, j \in 1..Len(executed) : i < j => executed[i] < executed[j]
    /\ pc = "Processing" =>
          /\ ToolUseIds(SubSeq(message, 1, idx - 1)) = ResultIds(toolResults)
          /\ \A k \in 1..Len(message) :
                message[k].type = "tool_use" =>
                    (message[k].id \in Range(executed) <=> k < idx)
    /\ \A t \in 1..Len(conversation) :
          \A i, j \in 1..Len(conversation[t].blocks) :
              (/\ conversation[t].kind = "AssistantContent"
               /\ conversation[t].blocks[i].id \in denied
               /\ conversation[t].blocks[j].type = "tool_use"
               /\ i <= j)
              => conversation[t].blocks[j].id \notin Range(executed)

\* C7 witness: the first block of a response was executed, the second was
\* denied, and another response has been processed since
C7_Witness ==
    /\ Len(conversation) >= 4
    /\ conversation[2].kind = "AssistantContent"
    /\ Len(conversation[2].blocks) = 2
    /\ conversation[2].blocks[1].id \in Range(executed)
    /\ conversation[2].blocks[2].id \in denied
    /\ ev.kind = "exec"

\* C8: executeTool yields exactly one result block, with the id of the
\* invocation: an error "tool not found", no handler being called, for a name
\* that is not registered; an error with the handler's message when the
\* handler fails; the handler's output and no error otherwise. Run does not
\* return in any of these cases and goes on with the next block.
C8_DispatchOutcomesAreData ==
    ev.kind = "exec" =>
        LET n == Len(toolResults)
            r == toolResults[n]
        IN  /\ n >= 1
            /\ ResultIds(toolResults) = ToolUseIds(SubSeq(message, 1, ev.index))
            /\ r.id = ev.id
            /\ ev.name \notin RegisteredNames =>
                  /\ r.isError /\ r.content = "tool not found"
                  /\ ev.id \notin Range(handlerCalls)
            /\ (ev.name \in RegisteredNames /\ ev.outcome = "fail") =>
                  /\ r.isError /\ r.content = "handler error"
                  /\ ev.id \in Range(handlerCalls)
            /\ (ev.name \in RegisteredNames /\ ev.outcome = "ok") =>
                  /\ ~r.isError /\ r.content = "handler output"
                  /\ ev.id \in Range(handlerCalls)
            /\ pc = "Processing" /\ runResult = "running" /\ idx = ev.index + 1

\* C8 witness: an unregistered name and a failing handler in one batch
C8_Witness ==
    /\ ev.kind = "exec"
    /\ Len(toolResults) = 2
    /\ toolResults[1].content = "tool not found"
    /\ toolResults[2].content = "handler error"

\* C9: the consecutive-use counter equals the number of tool uses processed
\* since the last user-input read, allowed or denied; it is reset at every
\* read and at no other step.
C9_ConsecutiveCounter ==
    /\ loopProtection.ConsecutiveToolUses = attempts
    /\ ev.kind \in {"read", "eof"} => loopProtection.ConsecutiveToolUses = 0
    /\ ev.kind \notin {"read", "eof"} =>
          loopProtection.ConsecutiveToolUses >= ev.before.ConsecutiveToolUses
    /\ Attempted =>
          loopProtection.ConsecutiveToolUses = ev.before.ConsecutiveToolUses + 1

\* C9 witness: a denial, a second read, and two more tool uses: the counter
\* stands at two again
C9_Witness ==
    /\ reads = 2
    /\ attempts = 2
    /\ denied # {}
    /\ Len(executed) >= 3

\* C10: a user-input read sets the consecutive-use counter to 0 and clears
\* the last tool name and the streak; the count and the anchor of the rate
\* window, the session start and the limits are left as they were.
C10_ResetScope ==
    ev.kind \in {"read", "eof"} =>
        /\ loopProtection.ConsecutiveToolUses = 0
        /\ loopProtection.LastToolName = ""
        /\ loopProtection.SameToolCallCount = 0
        /\ loopProtection.ToolUseCount = ev.before.ToolUseCount
        /\ loopProtection.ToolUseStartTime = ev.before.ToolUseStartTime
        /\ loopProtection.SessionStartTime = ev.before.SessionStartTime
        /\ loopProtection = [ev.before EXCEPT !.ConsecutiveToolUses = 0,
                                              !.LastToolName = "",
                                              !.SameToolCallCount = 0]

\* C10 witness: a read that found every counter set
C10_Witness ==
    /\ ev.kind = "read"
    /\ ev.before.ConsecutiveToolUses = 2
    /\ ev.before.SameToolCallCount = 2
    /\ ev.before.LastToolName # ""
    /\ ev.before.ToolUseCount = 2
    /\ now > 0

\* the steps that end an iteration of Run's loop, or lead to the first
LoopBottom == {"start", "noTools", "batchEnd", "deny"}

\* C11: the session time is compared at the top of each iteration and
\* nowhere else.  A step that ends the session on the time limit found
\* the elapsed time strictly above MaxSessionDuration, comes right after
\* the end of an iteration, and leaves Run returned without error; a step
\* that starts an iteration found the elapsed time within the limit and
\* goes on to the read or the generation request; nothing follows the end
\* of the session; a generation request or a handler during which the
\* limit passes still completes, Run going on with the response.
C11_SessionLimit ==
    LET elapsed == ev.at - ev.before.SessionStartTime
        limit   == ev.before.MaxSessionDuration
    IN  /\ ev.kind = "sessionEnd" =>
              /\ elapsed > limit
              /\ ev.prev \in LoopBottom
              /\ pc = "Done" /\ runResult = "nil"
        /\ ev.kind \in {"read", "eof", "continue"} =>
              /\ elapsed <= limit
              /\ ev.prev \in LoopBottom
        /\ ev.kind \in {"read", "continue"} => pc = "Generating"
        /\ ev.prev # "sessionEnd"
        /\ ev.kind \in {"gen", "exec", "text"} =>
              pc = "Processing" /\ runResult = "running"
        /\ runResult = "nil" => ev.kind \in {"sessionEnd", "eof"}

\* the limit passed while a handler ran; the batch was completed and the
\* session ended at the top of the next iteration
C11_Witness ==
    /\ ev.kind = "sessionEnd"
    /\ ev.prev = "batchEnd"
    /\ executed # << >>
    /\ runResult = "nil"

\* an iteration starts with the elapsed time equal to the limit
C11_WitnessAtLimit ==
    /\ ev.kind = "continue"
    /\ ev.at - ev.before.SessionStartTime = ev.before.MaxSessionDuration

\* a handler returns after the limit has passed, and the batch goes on
C11_WitnessBlocked ==
    /\ ev.kind = "exec"
    /\ now - loopProtection.SessionStartTime > loopProtection.MaxSessionDuration
    /\ pc = "Processing"

\* C12: an agent is never built from a tool list in which two definitions
\* share a name, and no lookup finds a name that more than one definition
\* of the agent carries.
C12_UniqueToolNames ==
    /\ startup = "constructed" =>
          \A i, j \in 1..Len(agentTools) :
              agentTools[i].Name = agentTools[j].Name => i = j
    /\ lookup.matches <= 1

(* the editor *)

\* the last call was of this mode, on an input the handler took up
Called(mode) ==
    editRequest.parses /\ editRequest.path # "" /\ editRequest.mode = mode

Min(a, b) == IF a <= b THEN a ELSE b

RECURSIVE OccurrencesOf(_, _, _)
\* the occurrences of sub (not empty) in s from position pos on, scanning
\* left to right without overlap: each the positions [from, to) it takes
OccurrencesOf(s, sub, pos) ==
    IF pos + Len(sub) - 1 > Len(s) THEN << >>
    ELSE IF SubSeq(s, pos, pos + Len(sub) - 1) = sub
    THEN <<[from |-> pos, to |-> pos + Len(sub)]>>
             \o OccurrencesOf(s, sub, pos + Len(sub))
    ELSE OccurrencesOf(s, sub, pos + 1)

\* s with its first n of the places ms replaced by new
FirstReplaced(s, ms, n, new) == ReplaceMatches(s, SubSeq(ms, 1, n), 1, new)

\* C13 as stated: create on an existing file returns the notice that the
\* file exists, without error, whatever content is asked for, and leaves
\* the file as it was.
C13_CreateNeverOverwrites ==
    Called("create") /\ fsBefore.exists =>
        /\ ~editResult.err
        /\ editResult.msg = "File already exists"
        /\ fs = fsBefore

\* C13 amended: create on an existing file leaves the file as it was; it
\* returns the notice without error when the content asked for is not
\* empty, and an error when it is empty.
C13_CreateKeepsExistingFile ==
    Called("create") /\ fsBefore.exists =>
        /\ fs = fsBefore
        /\ editRequest.content # << >> =>
              ~editResult.err /\ editResult.msg = "File already exists"
        /\ editRequest.content = << >> => editResult.err

C13_Witness ==
    /\ Called("create")
    /\ fsBefore.exists
    /\ fsBefore.content # << >>
    /\ editRequest.content # << >>
    /\ editRequest.content # fsBefore.content
    /\ editResult.msg = "File already exists"

\* C14 as stated: create on a missing target succeeds and leaves a file
\* whose body is the content asked for, the empty content included.
C14_CreateWritesContent ==
    Called("create") /\ ~fsBefore.exists =>
        /\ ~editResult.err
        /\ fs.exists
        /\ fs.content = editRequest.content

\* C14 amended: create on a missing target with content that is not empty
\* succeeds and leaves a file, in its directory, whose body is that
\* content; with empty content it fails and creates nothing.
C14_CreateWritesGivenContent ==
    Called("create") /\ ~fsBefore.exists =>
        /\ editRequest.content # << >> =>
              /\ ~editResult.err
              /\ editResult.msg = "Successfully created file"
              /\ fs = [content |-> editRequest.content, dir |-> TRUE, exists |-> TRUE]
        /\ editRequest.content = << >> =>
              editResult.err /\ fs = fsBefore

C14_Witness ==
    /\ Called("create")
    /\ ~fsBefore.exists
    /\ ~fsBefore.dir
    /\ fs.exists
    /\ Len(fs.content) > 1
    /\ fs.content = editRequest.content

C14_WitnessEmpty ==
    /\ Called("create")
    /\ ~fsBefore.exists
    /\ editRequest.content = << >>
    /\ editResult.err

\* C15: for oldStr not empty and different from newStr, replace with limit
\* 0 and replace with limit k, k the number of non-overlapping occurrences
\* of oldStr in the file from left to right, leave the same file and
\* return the same outcome and count; a call with either limit did so.
C15_LimitZeroIsLimitCount ==
    Called("replace") /\ editRequest.oldStr # << >>
                      /\ editRequest.oldStr # editRequest.newStr =>
        LET old    == editRequest.oldStr
            new    == editRequest.newStr
            k      == Len(OccurrencesOf(fsBefore.content, old, 1))
            all    == replaceInFile(fsBefore, old, new, 0)
            firstK == replaceInFile(fsBefore, old, new, k)
        IN  /\ all = firstK
            /\ editRequest.limit \in {0, k} =>
                  fs = all.fs /\ editResult = all.result /\ fs = firstK.fs
            /\ editRequest.limit \in {0, k} /\ ~editResult.err =>
                  editResult.count = k

C15_Witness ==
    /\ Called("replace")
    /\ editRequest.oldStr = <<"a", "a">>
    /\ editRequest.newStr = <<"b">>
    /\ fsBefore.content = <<"a", "a", "a", "a">>
    /\ editRequest.limit = 2
    /\ editResult.count = 2
    /\ fs.content = <<"b", "b">>

\* C16: replace with a positive limit N, oldStr not empty and different
\* from newStr, on a file with k non-overlapping occurrences: it fails
\* exactly when k = 0; when it succeeds the file is the old one with its
\* first min(N, k) occurrences replaced and nothing else changed, and the
\* count returned is min(N, k); when it fails the content is unchanged, and
\* so is a file that was there.  With oldStr empty it fails and changes
\* nothing.
C16_ReplaceFirstN ==
    Called("replace") /\ editRequest.limit > 0 =>
        LET old == editRequest.oldStr
            new == editRequest.newStr
            occ == OccurrencesOf(fsBefore.content, old, 1)
            n   == Min(editRequest.limit, Len(occ))
        IN  /\ old = << >> => editResult.err /\ fs = fsBefore
            /\ old # << >> /\ old # new =>
                  /\ editResult.err <=> Len(occ) = 0
                  /\ ~editResult.err =>
                        /\ fs.content = FirstReplaced(fsBefore.content, occ, n, new)
                        /\ editResult.count = n
                  /\ editResult.err =>
                        /\ fs.content = fsBefore.content
                        /\ fsBefore.exists => fs = fsBefore

\* two of the three occurrences are replaced, the third is left
C16_Witness ==
    /\ Called("replace")
    /\ editRequest.limit = 2
    /\ editRequest.oldStr = <<"a", "b">>
    /\ editRequest.newStr = << >>
    /\ fsBefore.content = <<"a", "b", "\n", "a", "b", "\n", "a", "b">>
    /\ fs.content = <<"\n", "\n", "a", "b">>
    /\ editResult.count = 2

C16_WitnessAbsent ==
    /\ Called("replace")
    /\ editRequest.limit = 1
    /\ editRequest.oldStr = <<"a", "b">>
    /\ fsBefore.exists
    /\ fsBefore.content = <<"b", "a">>
    /\ editResult.err

\* C17: replace with oldStr equal to newStr and not empty returns the
\* no-op message without error and leaves the file, were it there or not,
\* and its directory as they were, at the first call and at any later one.
C17_IdenticalReplaceIsNoOp ==
    Called("replace") /\ editRequest.oldStr # << >>
                      /\ editRequest.oldStr = editRequest.newStr =>
        /\ ~editResult.err
        /\ editResult.msg = "No changes needed - old_str and new_str are identical"
        /\ fs = fsBefore

\* a second call on a file that is missing
C17_Witness ==
    /\ Called("replace")
    /\ editRequest.oldStr = <<"a">>
    /\ editRequest.newStr = <<"a">>
    /\ edits = 2
    /\ ~fs.exists
    /\ ~editResult.err

\* the lines of a file body, as insertAtLine counts them: the text between
\* line breaks, so that the empty body is one empty line
LinesOf(body) == Split(body, NL)

\* the last call was an insertion at a line number the file has room for
InsertedInBounds ==
    /\ Called("insert_at_line")
    /\ editRequest.lineNumber >= 1
    /\ editRequest.lineNumber <= Len(LinesOf(fsBefore.content)) + 1

\* C18 as stated: after an insertion at a line L from 1 to lineCount + 1,
\* line L of the file is the inserted content, the lines before L are as
\* they were and every old line from L on is one line further down.
C18_InsertPlacement ==
    InsertedInBounds =>
        LET L   == editRequest.lineNumber
            old == LinesOf(fsBefore.content)
            new == LinesOf(fs.content)
        IN  /\ ~editResult.err
            /\ Len(new) = Len(old) + 1
            /\ new[L] = editRequest.content
            /\ \A i \in 1..(L - 1) : new[i] = old[i]
            /\ \A i \in L..Len(old) : new[i + 1] = old[i]

\* C18 amended: after an insertion at a line L from 1 to lineCount + 1 of
\* content that holds n lines (one more than its line breaks), lines L to
\* L + n - 1 of the file are the lines of the content, the lines before L
\* are as they were and every old line from L on is n lines further down;
\* for content without a line break that is the claim as stated.
C18_InsertPlacementOfLines ==
    InsertedInBounds =>
        LET L   == editRequest.lineNumber
            old == LinesOf(fsBefore.content)
            new == LinesOf(fs.content)
            ins == LinesOf(editRequest.content)
            n   == Len(ins)
        IN  /\ ~editResult.err
            /\ Len(new) = Len(old) + n
            /\ \A j \in 1..n : new[L + j - 1] = ins[j]
            /\ \A i \in 1..(L - 1) : new[i] = old[i]
            /\ \A i \in L..Len(old) : new[i + n] = old[i]
            /\ n = 1 => new[L] = editRequest.content

\* an insertion between the second and the third line
C18_Witness ==
    /\ InsertedInBounds
    /\ editRequest.lineNumber = 3
    /\ editRequest.content = <<"a">>
    /\ fsBefore.content = <<"a", "b", "\n", "a", "b", "\n", "a", "b">>
    /\ fs.content = <<"a", "b", "\n", "a", "b", "\n", "a", "\n", "a", "b">>

\* an insertion of two lines as the new last lines
C18_WitnessTwoLines ==
    /\ InsertedInBounds
    /\ editRequest.content = <<"a", "\n", "b">>
    /\ editRequest.lineNumber = Len(LinesOf(fsBefore.content)) + 1
    /\ fsBefore.content = <<"a", "\n", "b">>
    /\ fs.content = <<"a", "\n", "b", "\n", "a", "\n", "b">>

\* C19: an insertion at a line below 1 or above lineCount + 1 returns an
\* error and leaves the file system as it was: the file is there or
\* missing as before, with the content it had.
C19_InsertOutOfBounds ==
    /\ Called("insert_at_line")
    /\ \/ editRequest.lineNumber < 1
       \/ editRequest.lineNumber > Len(LinesOf(fsBefore.content)) + 1
    => /\ editResult.err
       /\ fs.exists = fsBefore.exists
       /\ fs.content = fsBefore.content

\* C20: regex_replace with a positive limit N, on a file in which the
\* pattern has m matches (leftmost first, without overlap) of which the
\* replacement changes one of the first min(N, m): the file is the old
\* one with its first min(N, m) matches replaced and the later ones left,
\* and the count returned is min(N, m).
C20_RegexReplaceFirstN ==
    Called("regex_replace") /\ editRequest.limit > 0
                            /\ Compile(editRequest.pattern).ok =>
        LET ms       == FindAll(Compile(editRequest.pattern).atoms, fsBefore.content, 1)
            n        == Min(editRequest.limit, Len(ms))
            expected == FirstReplaced(fsBefore.content, ms, n, editRequest.newStr)
        IN  expected # fsBefore.content =>
                /\ ~editResult.err
                /\ fs.content = expected
                /\ editResult.count = n

\* the scenario of C20: foo\d+ replaced by bar twice in "foo1 foo2 foo3"
C20_Scenario ==
    /\ Called("regex_replace")
    /\ editRequest.pattern = "foo\\d+"
    /\ editRequest.newStr = <<"b", "a", "r">>
    /\ editRequest.limit = 2
    /\ fsBefore.content = <<"f", "o", "o", "1", " ", "f", "o", "o", "2", " ",
                            "f", "o", "o", "3">>
    /\ fs.content = <<"b", "a", "r", " ", "b", "a", "r", " ", "f", "o", "o", "3">>
    /\ editResult.count = 2
    /\ ~editResult.err

\* C21: regex_replace returns an error exactly when the pattern is empty,
\* does not compile, or has no match in the file; in every other case it
\* returns without error, the file is written and the count returned is
\* the number of matches replaced (all of them, or the first limit of them
\* under a positive limit), whatever the replacement text is.
C21_RegexReplaceOutcome ==
    Called("regex_replace") =>
        LET regex == Compile(editRequest.pattern)
            ms    == IF regex.ok THEN FindAll(regex.atoms, fsBefore.content, 1)
                     ELSE << >>
            fails == editRequest.pattern = "" \/ ~regex.ok \/ ms = << >>
        IN  /\ editResult.err <=> fails
            /\ ~fails =>
                  /\ fs.exists
                  /\ editResult.count = IF editRequest.limit > 0
                                        THEN Min(editRequest.limit, Len(ms))
                                        ELSE Len(ms)

\* the three failures C21 names are errors in the model
C21_NamedFailures ==
    /\ Called("regex_replace")
    /\ editRequest.pattern = "("
    /\ fsBefore.exists
    /\ editResult.err

\* C22: append and prepend take a missing file for an empty one: on a file
\* of content X (empty when the file is missing) and for every content Y,
\* append returns without error and leaves X followed by Y, prepend
\* returns without error and leaves Y followed by X.
C22_AppendPrependOnAnyFile ==
    /\ Called("append") =>
          /\ ~editResult.err
          /\ fs.exists
          /\ fs.content = fsBefore.content \o editRequest.content
    /\ Called("prepend") =>
          /\ ~editResult.err
          /\ fs.exists
          /\ fs.content = editRequest.content \o fsBefore.content

C22_Witness ==
    /\ Called("append")
    /\ fsBefore.exists
    /\ fsBefore.content = <<"a", "b">>
    /\ editRequest.content = <<"b", "\n">>
    /\ fs.content = <<"a", "b", "b", "\n">>

C22_WitnessMissing ==
    /\ Called("prepend")
    /\ ~fsBefore.exists
    /\ ~fsBefore.dir
    /\ editRequest.content = <<"a">>
    /\ fs.exists
    /\ fs.content = <<"a">>
    /\ ~editResult.err

\* the last call was a replace or a regex_replace that returned an error
FailedSearch ==
    /\ Called("replace") \/ Called("regex_replace")
    /\ editResult.err

\* the request is refused before the file is looked at
RefusedUnseen ==
    \/ Called("replace") /\ editRequest.oldStr = << >>
    \/ Called("regex_replace") /\ editRequest.pattern = ""

\* C28 as stated: a replace or regex_replace that returns an error leaves
\* the path as it was, present or missing, with the content it had.
C28_FailedEditLeavesFileSystem ==
    FailedSearch =>
        /\ fs.exists = fsBefore.exists
        /\ fs.content = fsBefore.content

\* C28: a replace or regex_replace that returns an error leaves the
\* content as it was; a file that was there is untouched, and a file that
\* was missing stays missing when the request is refused for an empty
\* oldStr or pattern, and is otherwise there, empty, with its directory.
C28_FailedEditKeepsContent ==
    FailedSearch =>
        /\ fs.content = fsBefore.content
        /\ fsBefore.exists => fs = fsBefore
        /\ ~fsBefore.exists /\ RefusedUnseen => fs = fsBefore
        /\ ~fsBefore.exists /\ ~RefusedUnseen => fs.exists /\ fs.dir

C28_Witness ==
    /\ Called("replace")
    /\ editResult.err
    /\ editRequest.oldStr = <<"a">>
    /\ ~fsBefore.exists
    /\ fs.exists
    /\ fs.content = << >>

C28_WitnessInvalidPattern ==
    /\ Called("regex_replace")
    /\ editResult.err
    /\ editRequest.pattern = "("
    /\ ~fsBefore.exists
    /\ fs.exists

C28_WitnessRefused ==
    /\ Called("regex_replace")
    /\ editResult.err
    /\ editRequest.pattern = ""
    /\ ~fsBefore.exists
    /\ ~fs.exists

(* the loop protection, continued *)

\* what the last attempt met: the check that denied it, or none
AttemptOutcome == IF ev.kind = "deny" THEN ev.reason ELSE "none"

\* what each check finds at the last attempt, from the state before it
ConsecutiveTrips ==
    ev.before.ConsecutiveToolUses + 1 > ev.before.MaxConsecutiveToolUses
RateTrips ==
    /\ ElapsedAtAttempt <= 1
    /\ ev.before.ToolUseCount + 1 >= ev.before.MaxToolUsesPerMinute
SameToolTrips ==
    /\ ev.before.LastToolName = ev.name
    /\ ev.before.SameToolCallCount + 1 >= ev.before.MaxSameToolCalls

\* the rate window after an attempt that got past the rate check
RateWindowRecorded ==
    IF ElapsedAtAttempt > 1
    THEN /\ loopProtection.ToolUseStartTime = ev.at
         /\ loopProtection.ToolUseCount = 1
    ELSE /\ loopProtection.ToolUseStartTime = ev.before.ToolUseStartTime
         /\ loopProtection.ToolUseCount = ev.before.ToolUseCount + 1

\* C23: at each attempt the consecutive check is evaluated first, then the
\* rate check, then the same-tool check, and the first that denies ends
\* the evaluation.  A denied attempt is counted in the consecutive counter
\* and in the count of the rate window; a denial by the consecutive or the
\* rate check leaves the window's anchor, the last tool name and the
\* streak as they were; a denial by the same-tool check keeps the update
\* of the rate window and of the streak.
C23_CheckOrder ==
    Attempted =>
        /\ AttemptOutcome = "consecutive" <=> ConsecutiveTrips
        /\ AttemptOutcome = "rate" <=> ~ConsecutiveTrips /\ RateTrips
        /\ AttemptOutcome = "same-tool" <=>
              ~ConsecutiveTrips /\ ~RateTrips /\ SameToolTrips
        /\ loopProtection.ConsecutiveToolUses = ev.before.ConsecutiveToolUses + 1
        /\ AttemptOutcome \in {"consecutive", "rate"} =>
              /\ loopProtection.ToolUseCount = ev.before.ToolUseCount + 1
              /\ loopProtection.ToolUseStartTime = ev.before.ToolUseStartTime
              /\ loopProtection.LastToolName = ev.before.LastToolName
              /\ loopProtection.SameToolCallCount = ev.before.SameToolCallCount
        /\ AttemptOutcome = "same-tool" =>
              /\ RateWindowRecorded
              /\ loopProtection.LastToolName = ev.before.LastToolName
              /\ loopProtection.SameToolCallCount =
                    ev.before.SameToolCallCount + 1

\* C23 witness: the consecutive and the rate check would both deny, the
\* consecutive check is the one that does, and the attempt is counted in
\* the rate window
C23_Witness ==
    /\ DeniedBy("consecutive")
    /\ RateTrips
    /\ loopProtection.ToolUseCount = ev.before.ToolUseCount + 1
    /\ loopProtection.ToolUseCount >= 2

\* C23 witness: the rate check denies a name that differs from the last
\* one, which stays the last one
C23_WitnessRate ==
    /\ DeniedBy("rate")
    /\ ev.before.LastToolName \notin {"", ev.name}
    /\ loopProtection.LastToolName = ev.before.LastToolName

\* C23 witness: the same-tool check denies an attempt that opened a new
\* rate window
C23_WitnessSameTool ==
    /\ DeniedBy("same-tool")
    /\ ElapsedAtAttempt > 1
    /\ loopProtection.ToolUseStartTime = ev.at

\* C24: at every attempt the anchor of the rate window is the time of the
\* first attempt counted in the window: an attempt that is the first one
\* counted (the count stands at 1 after it) leaves the anchor at its own
\* time, also in the first window of a session, and every later attempt of
\* the window leaves the anchor where it was.
C24_WindowAnchor ==
    Attempted =>
        IF loopProtection.ToolUseCount = 1
        THEN loopProtection.ToolUseStartTime = ev.at
        ELSE loopProtection.ToolUseStartTime = ev.before.ToolUseStartTime

\* the later windows of a session are anchored as C24 says
C24_LaterWindows ==
    /\ Attempted
    /\ ev.before.ToolUseCount > 0
    /\ loopProtection.ToolUseCount = 1
    /\ loopProtection.ToolUseStartTime = ev.at
    /\ ev.at > 0

\* C25: when a tool_use block of a response meets the checks or its
\* handler, every text block of the response was printed before: no text
\* block stands after it in the response.
C25_TextBeforeDispatch ==
    Attempted =>
        \A i \in 1..Len(message) : message[i].type = "text" => i < ev.index

\* position of the last user line in the conversation, 0 when there is none
LastRead ==
    LET lines == {i \in 1..Len(conversation) : conversation[i].kind = "UserText"}
    IN  IF lines = {} THEN 0 ELSE CHOOSE i \in lines : \A j \in lines : j <= i

\* the assistant turns since the last user line
TurnsSinceRead ==
    {i \in (LastRead + 1)..Len(conversation) :
        conversation[i].kind = "AssistantContent"}

\* generation requests made since the last user-input read
GensSinceRead ==
    Cardinality(TurnsSinceRead) + (IF ev.kind = "genError" THEN 1 ELSE 0)

\* ids of the tool uses asked for since the last user-input read
IdsSinceRead ==
    UNION {Range(ToolUseIds(conversation[i].blocks)) : i \in TurnsSinceRead}

\* handlers called since the last user-input read
HandlersSinceRead == Cardinality(Range(handlerCalls) \cap IdsSinceRead)

\* C26: between two user-input reads at most MaxConsecutiveToolUses
\* handlers are called (and as many tools passed to executeTool), and at
\* most MaxConsecutiveToolUses + 1 generation requests are made.
C26_BoundedUnattendedUse ==
    /\ HandlersSinceRead <= loopProtection.MaxConsecutiveToolUses
    /\ Cardinality(Range(executed) \cap IdsSinceRead)
          <= loopProtection.MaxConsecutiveToolUses
    /\ GensSinceRead <= loopProtection.MaxConsecutiveToolUses + 1

\* C26 witness: both bounds are met, and the next tool use is denied
C26_Witness ==
    /\ loopProtection.MaxConsecutiveToolUses = 1
    /\ HandlersSinceRead = 1
    /\ GensSinceRead = 2
    /\ DeniedBy("consecutive")

\* ids of the result blocks in the conversation
ResultIdsAppended ==
    UNION {Range(ResultIds(conversation[i].blocks)) :
              i \in {j \in 1..Len(conversation) :
                        conversation[j].kind = "ToolResults"}}

\* C27: when a generation request is made or user input is read, the
\* conversation holds a result block for every tool use whose handler was
\* called, also for those of a batch in which a later tool use was denied.
C27_NoExecutedResultLost ==
    ev.kind \in {"read", "eof", "gen", "genError"} =>
        Range(handlerCalls) \subseteq ResultIdsAppended

(* the action limiter *)

\* C29: however the calls of concurrent callers interleave, the recorded
\* counters never pass their limits (50 actions in all, 10 on one target,
\* 5 identical in a row) and no recorded action is lost: TotalActions is
\* the number of recordAction steps since the last reset.
C29_LimitsUnderConcurrency ==
    /\ stats.TotalActions <= TotalActionsLimit
    /\ \A target \in TargetNames :
          stats.ActionsByTarget[target] <= TargetActionsLimit
    /\ stats.ConsecutiveSame <= ConsecutiveSameLimit
    /\ stats.TotalActions = recorded

\* no recorded action is lost, and with one caller at a time past its
\* check the limits hold
C29_Serialized ==
    /\ stats.TotalActions = recorded
    /\ stats.TotalActions = TotalActionsLimit
    /\ \E p \in Callers : lresult[p] = "exceeded"

\* a limit on a count is reached
CountLimitReached ==
    \/ stats.TotalActions >= TotalActionsLimit
    \/ \E target \in TargetNames :
          stats.ActionsByTarget[target] >= TargetActionsLimit
    \/ stats.ConsecutiveSame >= ConsecutiveSameLimit

\* the counters of the stats
Counters(s) ==
    << s.TotalActions, s.ActionsByType, s.ActionsByTarget, s.ActionsByTypePath,
       s.ConsecutiveSame >>

\* a call made once a limit on a count is reached, without reset_state:
\* it reports the limit and leaves the stats as they are
DeniedAtLimit(p) ==
    /\ lpc[p] = "initialized" /\ lpc'[p] # "initialized"
    /\ ~linput[p].ResetState
    /\ CountLimitReached
    => /\ lresult'[p] = "exceeded"
       /\ lpc'[p] = "idle"
       /\ stats' = stats

\* a call with reset_state: every counter is zero after it, and no limit
\* stands in the way of the next action
ResetClears(p) ==
    /\ lpc[p] = "initialized" /\ lpc'[p] # "initialized"
    /\ linput[p].ResetState
    => /\ lresult'[p] = "reset"
       /\ Counters(stats') = Counters(ZeroStats)
       /\ recorded' = 0
       /\ checkLimits(stats', isInitialized', clock') = "none"

\* a call without reset_state that is check_only or names no action
\* changes no counter, at none of its steps
QuietCall(p) ==
    /\ lpc[p] # "idle" /\ lpc'[p] # lpc[p]
    /\ ~linput[p].ResetState
    /\ linput[p].CheckOnly \/ linput[p].Action = ""
    => Counters(stats') = Counters(stats)

\* entering ActionLimiter changes no counter
QuietEntry(p) ==
    lpc[p] = "idle" /\ lpc'[p] # "idle" => Counters(stats') = Counters(stats)

C30_WitnessReset ==
    /\ \E p \in Callers : lresult[p] = "reset"
    /\ stats.TotalActions = 1
    /\ stats.StartTime = 5
    /\ recorded = 1

====
